---- MODULE Spec2Model ----
(***************************************************************************)
(* Model of bridge_keywords_to_tags.py: copying the XMP keywords of a file  *)
(* (read with exiftool) to its Finder tags (the extended attribute          *)
(* com.apple.metadata:_kMDItemUserTags, read and written with xattr).       *)
(*                                                                          *)
(* Strings are sequences of one-character strings, so that str.lower(),    *)
(* str.split and the "name\n0" tag encoding are computed, not assumed.      *)
(* Python lists that the code only ever turns into sets, or builds from     *)
(* sets, are sets here: their order is not observable in the tag set.       *)
(***************************************************************************)
EXTENDS Integers, Sequences, FiniteSets, TLC

VARIABLES
    MARKER_KEYWORD,  \* the module global of that name; <<>> stands for None
    script_MARKER_KEYWORD,  \* MARKER_KEYWORD as the script file on disk sets it
    meta,            \* path -> the metadata object exiftool prints for it
    xattr,           \* path -> the _kMDItemUserTags attribute of the file
    last,            \* record of the most recent per-file call
    \* -- the file system and watch_directories --
    exists,          \* the paths for which Path.exists() is true
    mtime,           \* path -> stat().st_mtime
    cfg,             \* the arguments of watch_directories
    pc,              \* where watch_directories stands
    scanLeft,        \* files of the initial os.walk not yet visited
    counts,          \* process_folder's processed, tagged, errors
    notifier,        \* the fswatch child: "off", "running", "ended", "reaped"
    pipe,            \* lines fswatch has written that wait in the OS pipe
    decoded,         \* lines process.stdout has read ahead from the pipe
    last_processed,  \* the dict of that name: path -> mtime
    pending_files,   \* the set of that name
    event_age,       \* time.time() - last_event_time; None when that is None
    todo,            \* files_to_process not yet handed to a subprocess
    batch,           \* log of the current or latest flush, one record a file
    hist,            \* what was accepted since the latest flush began
    note,            \* what became of the latest line read from the pipe
    exit             \* how the process ended

fvars == <<MARKER_KEYWORD, script_MARKER_KEYWORD, meta, xattr, last>>
wvars == <<exists, mtime, cfg, pc, scanLeft, counts, notifier, pipe,
           decoded, last_processed, pending_files, event_age, todo, batch,
           hist, note, exit>>
vars == <<fvars, wvars>>

----------------------------------------------------------------------------
(* Strings *)

NL == "\n"

s_sync    == <<"s","y","n","c">>
s_Sync    == <<"S","y","n","c">>
s_Red     == <<"R","e","d">>
s_Blue    == <<"B","l","u","e">>
s_Cat     == <<"C","a","t">>
s_AnimCat == <<"A","n","i","m","a","l","s","|","C","a","t">>
s_AB      == <<"A","|","B">>
s_Stale   == <<"O","l","d","|","S","t","a","l","e">>
s_7       == <<"7">>

UpperChars == <<"A","B","C","D","E","F","G","H","I","J","K","L","M",
                "N","O","P","Q","R","S","T","U","V","W","X","Y","Z">>
LowerChars == <<"a","b","c","d","e","f","g","h","i","j","k","l","m",
                "n","o","p","q","r","s","t","u","v","w","x","y","z">>

\* str.lower() on one character
LowerTable == [i \in 1..Len(UpperChars) |-> LowerChars[i]]
UpperSet == {UpperChars[i] : i \in 1..Len(UpperChars)}
UpperIndex(c) == CHOOSE i \in 1..Len(UpperChars) : UpperChars[i] = c
LowerChar(c) == IF c \in UpperSet THEN LowerTable[UpperIndex(c)] ELSE c

\* str.lower()
Lower(s) == [i \in 1..Len(s) |-> LowerChar(s[i])]

\* The positions of character c in s
Positions(s, c) == {i \in 1..Len(s) : s[i] = c}

SetMin(S) == CHOOSE x \in S : \A y \in S : x <= y
SetMax(S) == CHOOSE x \in S : \A y \in S : x >= y

\* tag.split('\n')[-1]: the wrong end of the split
DecodeTagLast(tag) ==
    IF Positions(tag, NL) = {} THEN tag
    ELSE SubSeq(tag, SetMax(Positions(tag, NL)) + 1, Len(tag))

\* tag.split('\n')[0]
DecodeTag(tag) ==
    IF Positions(tag, NL) = {} THEN tag
    ELSE SubSeq(tag, 1, SetMin(Positions(tag, NL)) - 1)

\* f"{tag}\n0"
EncodeTag(tag) == tag \o <<NL, "0">>

----------------------------------------------------------------------------
(* Paths: a path is the sequence of the dot-separated parts of its name *)

p_main    == <<"a", "jpg">>
p_sidecar == <<"a", "jpg", "xmp">>

Paths == {p_main, p_sidecar}

\* Path.suffix
Suffix(p) == IF Len(p) > 1 THEN p[Len(p)] ELSE ""

\* Path.with_suffix('')
WithSuffixEmpty(p) == IF Len(p) > 1 THEN SubSeq(p, 1, Len(p) - 1) ELSE p

\* Path.exists()
Exists(p) == p \in exists

----------------------------------------------------------------------------
(* Configuration *)

NoMarker == <<>>
STRIP_HIERARCHICAL_PREFIXES == TRUE
Markers == {NoMarker, s_sync}

----------------------------------------------------------------------------
(* MetadataProvider: exiftool -json -Subject -Keywords -HierarchicalSubject *)

\* A field of the JSON object: missing, a list, one string, or one number
FAbsent   == [kind |-> "absent", items |-> {}, val |-> <<>>]
FList(S)  == [kind |-> "list",   items |-> S,  val |-> <<>>]
FStr(s)   == [kind |-> "str",    items |-> {}, val |-> s]
FNum(s)   == [kind |-> "num",    items |-> {}, val |-> s]

Metadata(subj, kw, hier) ==
    [Subject |-> subj, Keywords |-> kw, HierarchicalSubject |-> hier]

\* The values one field contributes: every item of a list, a string itself,
\* nothing for any other JSON value
FieldKeywords(f) ==
    CASE f.kind = "list" -> f.items
      [] f.kind = "str"  -> {f.val}
      [] OTHER           -> {}

\* an extraction that reduces every keyword to the part after its last '|'
get_xmp_keywords_leaf(m, strip_prefixes, fail) ==
    IF fail THEN {}
    ELSE {IF Positions(k, "|") = {} THEN k
          ELSE SubSeq(k, SetMax(Positions(k, "|")) + 1, Len(k)) :
             k \in FieldKeywords(m.Subject) \cup FieldKeywords(m.Keywords)}

\* get_xmp_keywords: strip_prefixes is accepted and never read; a failed
\* exiftool run or unparsable output gives the empty list
get_xmp_keywords(m, strip_prefixes, fail) ==
    IF fail THEN {}
    ELSE FieldKeywords(m.Subject) \cup FieldKeywords(m.Keywords)

----------------------------------------------------------------------------
(* TagStore: the xattr com.apple.metadata:_kMDItemUserTags *)

AttrAbsent   == [present |-> FALSE, tags |-> {}]
AttrOf(S)    == [present |-> TRUE,  tags |-> S]

\* The TagSet of an attribute value: the names of the stored tags
TagSet(a) == IF a.present THEN {DecodeTag(t) : t \in a.tags} ELSE {}

OpRead(p)      == [op |-> "read",  path |-> p, tags |-> {}]
OpWrite(p, S)  == [op |-> "write", path |-> p, tags |-> S]
OpClear(p)     == [op |-> "clear", path |-> p, tags |-> {}]

\* get_finder_tags: xattr -p exits non-zero when the attribute is absent and
\* on any other error; both give []
get_finder_tags(a, fail) ==
    IF fail \/ ~a.present THEN {} ELSE {DecodeTag(t) : t \in a.tags}

\* set_finder_tags without its branch for the empty list: the empty list is
\* written like any other
set_finder_tags_no_clear(p, a, tags, fail) ==
    IF fail
    THEN [ok |-> FALSE, attr |-> a, ops |-> <<OpWrite(p, tags)>>]
    ELSE [ok |-> TRUE, attr |-> AttrOf({EncodeTag(t) : t \in tags}),
          ops |-> <<OpWrite(p, tags)>>]

\* set_finder_tags with a checked xattr -d: removing an attribute that is
\* not there is a failure
set_finder_tags_checked(p, a, tags, fail) ==
    IF tags = {}
    THEN [ok |-> ~fail /\ a.present, attr |-> IF fail THEN a ELSE AttrAbsent,
          ops |-> <<OpClear(p)>>]
    ELSE IF fail
         THEN [ok |-> FALSE, attr |-> a, ops |-> <<OpWrite(p, tags)>>]
         ELSE [ok |-> TRUE, attr |-> AttrOf({EncodeTag(t) : t \in tags}),
               ops |-> <<OpWrite(p, tags)>>]

\* set_finder_tags with an unchecked xattr -d for the empty list
set_finder_tags(p, a, tags, fail) ==
    IF tags = {}
    THEN [ok |-> TRUE, attr |-> IF fail THEN a ELSE AttrAbsent,
          ops |-> <<OpClear(p)>>]
    ELSE IF fail
         THEN [ok |-> FALSE, attr |-> a, ops |-> <<OpWrite(p, tags)>>]
         ELSE [ok |-> TRUE, attr |-> AttrOf({EncodeTag(t) : t \in tags}),
               ops |-> <<OpWrite(p, tags)>>]

----------------------------------------------------------------------------
(* Per-file processing *)

\* What one call can fail at: the first and the second exiftool run, the
\* xattr read, the xattr write or delete
FaultKinds == {"exif1", "exif2", "read", "store"}
MaxFaults == 1
Faults == {F \in [FaultKinds -> BOOLEAN] :
             Cardinality({k \in FaultKinds : F[k]}) <= MaxFaults}
NoFaults == [k \in FaultKinds |-> FALSE]

\* The result of a call: the returned success flag, the keywords the call
\* settled on (process_file returns them; process_xmp_sidecar returns the
\* count 1 or 0 instead, kept in count), the TagStore calls made in order, the
\* target's attribute afterwards and the failures that happened
Ret(success, keywords, count, ops, attr, hit) ==
    [success |-> success, keywords |-> keywords, count |-> count, ops |-> ops,
     attr |-> attr, hit |-> hit]

\* if MARKER_KEYWORD: if MARKER_KEYWORD not in raw_keywords  (a comparison
\* that ignores case, unlike the code's)
MarkerMissingAnyCase(marker, raw) ==
    marker # NoMarker /\ ~\E k \in raw : Lower(k) = Lower(marker)

\* if MARKER_KEYWORD: if MARKER_KEYWORD not in raw_keywords
MarkerMissing(marker, raw) == marker # NoMarker /\ marker \notin raw

\* [k for k in keywords if k != MARKER_KEYWORD]: the comparison without lower()
RemoveMarkerExact(marker, keywords) ==
    IF marker # NoMarker THEN keywords \ {marker} ELSE keywords

\* [k for k in keywords if k.lower() != MARKER_KEYWORD.lower()]
RemoveMarker(marker, keywords) ==
    IF marker # NoMarker
    THEN {k \in keywords : Lower(k) # Lower(marker)}
    ELSE keywords

\* The tail of process_file with a test that skips the write when the merged
\* set is the one already stored
ReconcileFastPath(p, a, keywords, dry_run, merge, F, hit0) ==
    LET readFails == merge /\ F.read /\ a.present
        existing  == get_finder_tags(a, F.read)
        all_tags  == IF merge THEN existing \cup keywords ELSE keywords
        ops0      == IF merge THEN <<OpRead(p)>> ELSE <<>>
        hit1      == hit0 \cup (IF readFails THEN {"read"} ELSE {})
        w         == set_finder_tags(p, a, all_tags, F.store)
    IN  IF dry_run \/ (merge /\ all_tags = existing)
        THEN Ret(TRUE, keywords, 0, ops0, a, hit1)
        ELSE Ret(w.ok, keywords, IF w.ok THEN 1 ELSE 0, ops0 \o w.ops, w.attr,
                 hit1 \cup (IF F.store THEN {"store"} ELSE {}))

\* The tail of process_file without its dry-run test
ReconcileWet(p, a, keywords, dry_run, merge, F, hit0) ==
    LET readFails == merge /\ F.read /\ a.present
        existing  == get_finder_tags(a, F.read)
        all_tags  == IF merge THEN existing \cup keywords ELSE keywords
        ops0      == IF merge THEN <<OpRead(p)>> ELSE <<>>
        hit1      == hit0 \cup (IF readFails THEN {"read"} ELSE {})
        w         == set_finder_tags(p, a, all_tags, F.store)
    IN  Ret(w.ok, keywords, IF w.ok THEN 1 ELSE 0, ops0 \o w.ops, w.attr,
            hit1 \cup (IF F.store THEN {"store"} ELSE {}))

\* The tail of process_file once the keywords to set are known (lines
\* 269-279); process_xmp_sidecar ends the same way (lines 308-312) with its
\* dry-run test before the read
Reconcile(p, a, keywords, dry_run, merge, F, hit0) ==
    LET readFails == merge /\ F.read /\ a.present
        existing  == get_finder_tags(a, F.read)
        all_tags  == IF merge THEN existing \cup keywords ELSE keywords
        ops0      == IF merge THEN <<OpRead(p)>> ELSE <<>>
        hit1      == hit0 \cup (IF readFails THEN {"read"} ELSE {})
        w         == set_finder_tags(p, a, all_tags, F.store)
    IN  IF dry_run
        THEN Ret(TRUE, keywords, 0, ops0, a, hit1)
        ELSE Ret(w.ok, keywords, IF w.ok THEN 1 ELSE 0, ops0 \o w.ops, w.attr,
                 hit1 \cup (IF F.store THEN {"store"} ELSE {}))

process_file(p, m, a, marker, dry_run, merge, strip_prefixes, F) ==
    LET raw_keywords == get_xmp_keywords(m, FALSE, F.exif1)
        hitA == IF F.exif1 THEN {"exif1"} ELSE {}
        again == strip_prefixes # STRIP_HIERARCHICAL_PREFIXES
        keywords0 == IF again THEN get_xmp_keywords(m, strip_prefixes, F.exif2)
                     ELSE raw_keywords
        hitB == hitA \cup (IF again /\ F.exif2 THEN {"exif2"} ELSE {})
        keywords == RemoveMarker(marker, keywords0)
    IN  IF raw_keywords = {}
        THEN Ret(TRUE, {}, 0, <<>>, a, hitA)
        ELSE IF MarkerMissing(marker, raw_keywords)
        THEN Ret(TRUE, {}, 0, <<>>, a, hitA)
        ELSE IF marker # NoMarker /\ keywords = {} /\ merge
        THEN Ret(TRUE, {}, 0, <<>>, a, hitB)
        ELSE Reconcile(p, a, keywords, dry_run, merge, F, hitB)

\* process_xmp_sidecar: m is the sidecar's metadata, a the main file's
\* attribute
process_xmp_sidecar(sidecar_path, m, a, marker, dry_run, merge, strip_prefixes, F) ==
    LET main_file == WithSuffixEmpty(sidecar_path)
        keywords0 == get_xmp_keywords(m, strip_prefixes, F.exif1)
        hitA == IF F.exif1 THEN {"exif1"} ELSE {}
        raw_keywords == get_xmp_keywords(m, FALSE, F.exif2)
        hitB == hitA \cup (IF marker # NoMarker /\ F.exif2 THEN {"exif2"} ELSE {})
        keywords == RemoveMarker(marker, keywords0)
    IN  IF ~Exists(main_file)
        THEN Ret(FALSE, {}, 0, <<>>, a, {})
        ELSE IF keywords0 = {}
        THEN Ret(TRUE, {}, 0, <<>>, a, hitA)
        ELSE IF MarkerMissing(marker, raw_keywords)
        THEN Ret(TRUE, {}, 0, <<>>, a, hitB)
        ELSE IF marker # NoMarker /\ keywords = {}
        THEN Ret(TRUE, {}, 0, <<>>, a, hitB)
        ELSE IF dry_run
        THEN Ret(TRUE, keywords, 1, <<>>, a, hitB)
        ELSE Reconcile(main_file, a, keywords, FALSE, merge, F, hitB)

----------------------------------------------------------------------------
(* The files of the model and their possible contents *)

\* no keywords; Scenario A with a stale hierarchical entry; the marker
\* alone, in both fields; the marker in two spellings; the marker only in
\* another spelling
MainMetas ==
    { Metadata(FAbsent, FAbsent, FAbsent),
      Metadata(FList({s_sync, s_AnimCat, s_Red}), FAbsent, FList({s_Stale})),
      Metadata(FList({s_sync}), FStr(s_sync), FAbsent),
      Metadata(FList({s_sync, s_Sync, s_Red}), FAbsent, FAbsent),
      Metadata(FList({s_Sync, s_Red}), FAbsent, FAbsent) }

SidecarMetas ==
    { Metadata(FList({s_sync, s_Sync, s_Cat}), FAbsent, FAbsent),
      Metadata(FStr(s_sync), FAbsent, FAbsent) }

\* Attribute values a user can have set in Finder: none, one coloured tag,
\* and tags that include one spelled like the marker
FinderAttrs ==
    { AttrAbsent,
      AttrOf({s_Blue \o <<NL, "6">>}),
      AttrOf({EncodeTag(s_Blue), EncodeTag(s_Sync)}) }

----------------------------------------------------------------------------
(* The record of the most recent call *)

NoCall ==
    [fn |-> "none", path |-> <<>>, target |-> <<>>, dry_run |-> FALSE,
     merge |-> FALSE, strip |-> FALSE, before |-> AttrAbsent, ops |-> <<>>,
     success |-> TRUE, keywords |-> {}, count |-> 0, hit |-> {},
     repeat |-> FALSE, prevMut |-> <<>>]

\* The calls of a result that change the attribute
Mutating(ops) == SelectSeq(ops, LAMBDA o : o.op # "read")

Called(fn, p, target, dry_run, merge, strip, r) ==
    LET rep == /\ last.fn = fn /\ last.path = p
               /\ last.dry_run = dry_run /\ last.merge = merge
               /\ last.strip = strip
               /\ last.hit = {} /\ r.hit = {}
    IN  [fn |-> fn, path |-> p, target |-> target, dry_run |-> dry_run,
         merge |-> merge, strip |-> strip, before |-> xattr[target],
         ops |-> r.ops, success |-> r.success, keywords |-> r.keywords,
         count |-> r.count, hit |-> r.hit, repeat |-> rep,
         prevMut |-> IF rep THEN Mutating(last.ops) ELSE <<>>]

----------------------------------------------------------------------------
(* watch_directories: configuration, the watermark dict, the clock *)

\* last_event_time = None: no number of seconds
None == -1

SUPPORTED_EXTENSIONS ==
    {"jpg", "jpeg", "png", "tiff", "tif", "gif", "bmp", "psd", "ai", "eps",
     "pdf", "raw", "cr2", "cr3", "nef", "arw", "orf", "rw2", "dng", "mov",
     "mp4", "avi", "mkv", "xmp"}

\* a file of the watched folder whose extension is not supported
p_other == <<"a", "txt">>
NotePaths == Paths \cup {p_other}

\* bounds of the environment
MaxChanges == 1
MaxPipe == 1

\* select.select(..., 2) and the test "time.time() - last_event_time >= 1"
SelectTimeout == 2
QuietPeriod == 1

\* dict.get(key, default) and dict[key] = value
DictGet(d, k, default) == IF k \in DOMAIN d THEN d[k] ELSE default
\* an assignment that forgets the other keys
DictPutOnly(d, k, v) == [x \in {k} |-> v]
\* "d[k] = v"
DictPut(d, k, v) ==
    [x \in (DOMAIN d) \cup {k} |-> IF x = k THEN v ELSE d[x]]

\* time.time() - last_event_time after d more seconds; the difference is
\* only ever compared with QuietPeriod, so it is kept up to MaxAge
MaxAge == SelectTimeout
\* a clock whose reading loses the time of the latest addition
LaterUnset(age, d) == None
Later(age, d) ==
    IF age = None THEN None
    ELSE IF age + d > MaxAge THEN MaxAge ELSE age + d

\* "if last_mtime > 0 and mtime == last_mtime: continue"
DuplicateEvent(last_mtime, m) == last_mtime > 0 /\ m = last_mtime

\* the body of "if ready:" for one line of fswatch; gone tells that the file
\* vanished between Path.exists() and Path.stat()
Notification(changed_path, lp, pend, age, gone) ==
    LET drop(v) == [verdict |-> v, last_processed |-> lp,
                    pending_files |-> pend, event_age |-> age,
                    mtime |-> 0, last_mtime |-> 0]
    IN  IF Suffix(changed_path) \notin SUPPORTED_EXTENSIONS
        THEN drop("unsupported")
        ELSE IF ~Exists(changed_path) THEN drop("missing")
        ELSE IF gone THEN drop("oserror")
        ELSE LET m == mtime[changed_path]
                 last_mtime == DictGet(lp, changed_path, 0)
             IN  IF DuplicateEvent(last_mtime, m)
                 THEN [drop("duplicate") EXCEPT !.mtime = m,
                                                !.last_mtime = last_mtime]
                 ELSE [verdict |-> "accepted",
                       last_processed |-> DictPut(lp, changed_path, m),
                       pending_files |-> pend \cup {changed_path},
                       event_age |-> 0,
                       mtime |-> m, last_mtime |-> last_mtime]

\* a flush that leaves the batch as it is
ClearBatchKeep(pend) == pend
\* "pending_files.clear()"
ClearBatch(pend) == {}

\* what process_folder adds to processed, tagged and errors for one file
FolderCounts(fn, r) ==
    IF fn = "process_xmp_sidecar"
    THEN [processed |-> 0, tagged |-> r.count, errors |-> 0]
    ELSE [processed |-> 1,
          tagged |-> IF r.success /\ r.keywords # {} THEN 1 ELSE 0,
          errors |-> IF r.success THEN 0 ELSE 1]

\* the tools fail on a file that is not there
FaultsAt(p, target, F) ==
    [k \in FaultKinds |->
        \/ F[k]
        \/ (k \in {"exif1", "exif2"} /\ ~Exists(p))
        \/ (k \in {"read", "store"} /\ ~Exists(target))]

\* how the process ends: sys.exit(code), or a traceback and status 1; the
\* ...Quiet and ...Loud records are endings the code does not have
NoExit == [code |-> -1, cause |-> "running", reported |-> FALSE]
ExitNoFswatchQuiet == [code |-> 0, cause |-> "no_fswatch", reported |-> FALSE]
ExitNoFswatch == [code |-> 1, cause |-> "no_fswatch", reported |-> TRUE]
ExitPopenFailed == [code |-> 1, cause |-> "popen_failed", reported |-> TRUE]
ExitScanException ==
    [code |-> 1, cause |-> "scan_exception", reported |-> TRUE]
\* Ctrl+C: "Stopping file watcher...", terminate, wait, sys.exit(0)
ExitInterrupted == [code |-> 0, cause |-> "interrupt", reported |-> TRUE]
\* SIGTERM has no handler: the interpreter is ended by the signal
ExitKilled == [code |-> 143, cause |-> "sigterm", reported |-> FALSE]
ExitNotifierEndedLoud ==
    [code |-> 1, cause |-> "notifier_ended", reported |-> TRUE]
ExitNotifierEnded ==
    [code |-> 0, cause |-> "notifier_ended", reported |-> FALSE]

\* the line the service prints for one file of a batch
BatchReport(from_service, raised, returncode, stdout_one) ==
    IF ~from_service THEN "none"
    ELSE IF raised THEN "exception"
    ELSE IF returncode = 0 /\ stdout_one THEN "synced"
    ELSE IF returncode # 0 THEN "error"
    ELSE "none"

\* history: the latest line read; the paths added to the batch since the
\* latest flush began and whether a line named one of them again; the flush
NoNote == [verdict |-> "none", path |-> <<>>, mtime |-> 0, last_mtime |-> 0]
NoHist == [acc |-> {}, multi |-> FALSE]
NoBatch == [acc |-> {}, multi |-> FALSE, calls |-> <<>>]
NoCounts == [processed |-> 0, tagged |-> 0, errors |-> 0]

WATCH_REPLACE_MODE == TRUE

\* the arguments main() passes for --watch-service
WatchConfigs ==
    {[merge |-> ~WATCH_REPLACE_MODE, strip |-> STRIP_HIERARCHICAL_PREFIXES,
      from_service |-> TRUE]}

\* one watched folder holding a file and its sidecar
WatchMeta ==
    [p \in Paths |->
        IF p = p_main
        THEN Metadata(FList({s_sync, s_Red}), FAbsent, FAbsent)
        ELSE Metadata(FList({s_sync, s_Cat}), FAbsent, FAbsent)]
WatchAttr == AttrAbsent

\* the watch variables while no watch is running
WatchOff ==
    /\ exists = Paths
    /\ mtime = [p \in Paths |-> 1]
    /\ cfg = [merge |-> FALSE, strip |-> TRUE, from_service |-> FALSE]
    /\ pc = "off"
    /\ scanLeft = {}
    /\ counts = NoCounts
    /\ notifier = "off"
    /\ pipe = <<>>
    /\ decoded = <<>>
    /\ last_processed = <<>>
    /\ pending_files = {}
    /\ event_age = None
    /\ todo = {}
    /\ batch = NoBatch
    /\ hist = NoHist
    /\ note = NoNote
    /\ exit = NoExit

----------------------------------------------------------------------------
(* State machine: single-file runs of the command line *)

Init ==
    /\ MARKER_KEYWORD \in Markers
    /\ script_MARKER_KEYWORD = MARKER_KEYWORD
    /\ meta \in {f \in [Paths -> MainMetas \cup SidecarMetas] :
                    f[p_main] \in MainMetas /\ f[p_sidecar] \in SidecarMetas}
    /\ xattr \in {f \in [Paths -> FinderAttrs] : f[p_sidecar] = AttrAbsent}
    /\ last = NoCall
    /\ WatchOff

\* main() on one file: process_file(path, dry_run, merge, strip_prefixes)
ProcessFile(p, dry_run, merge, strip, F) ==
    LET r == process_file(p, meta[p], xattr[p], MARKER_KEYWORD,
                          dry_run, merge, strip, F)
    IN  /\ Suffix(p) # "xmp"
        /\ xattr' = [xattr EXCEPT ![p] = r.attr]
        /\ last' = Called("process_file", p, p, dry_run, merge, strip, r)
        /\ UNCHANGED <<MARKER_KEYWORD, script_MARKER_KEYWORD, meta, wvars>>

\* process_folder on a .xmp file: process_xmp_sidecar(file_path, ...)
ProcessXmpSidecar(p, dry_run, merge, strip, F) ==
    LET t == WithSuffixEmpty(p)
        r == process_xmp_sidecar(p, meta[p], xattr[t], MARKER_KEYWORD,
                                 dry_run, merge, strip, F)
    IN  /\ Suffix(p) = "xmp"
        /\ xattr' = [xattr EXCEPT ![t] = r.attr]
        /\ last' = Called("process_xmp_sidecar", p, t, dry_run, merge, strip, r)
        /\ UNCHANGED <<MARKER_KEYWORD, script_MARKER_KEYWORD, meta, wvars>>

\* The user edits a file's tags in Finder between two runs
ExternalTagEdit(p, a) ==
    /\ a # xattr[p]
    /\ xattr' = [xattr EXCEPT ![p] = a]
    /\ last' = NoCall
    /\ UNCHANGED <<MARKER_KEYWORD, script_MARKER_KEYWORD, meta, wvars>>

Next ==
    \/ \E p \in Paths, dry_run \in BOOLEAN, merge \in BOOLEAN,
          strip \in BOOLEAN, F \in Faults :
            ProcessFile(p, dry_run, merge, strip, F)
    \/ \E p \in Paths, dry_run \in BOOLEAN, merge \in BOOLEAN,
          strip \in BOOLEAN, F \in Faults :
            ProcessXmpSidecar(p, dry_run, merge, strip, F)
    \/ \E p \in Paths, a \in FinderAttrs : ExternalTagEdit(p, a)

Spec == Init /\ [][Next]_vars

----------------------------------------------------------------------------
(* State machine: watch_directories and its environment *)

InitWatch ==
    /\ MARKER_KEYWORD = s_sync
    /\ script_MARKER_KEYWORD = MARKER_KEYWORD
    /\ meta = WatchMeta
    /\ xattr = [p \in Paths |-> IF p = p_main THEN WatchAttr ELSE AttrAbsent]
    /\ last = NoCall
    /\ exists = Paths
    /\ mtime = [p \in Paths |-> 1]
    /\ cfg \in WatchConfigs
    /\ pc = "scan"
    /\ scanLeft = Paths
    /\ counts = NoCounts
    /\ notifier = "off"
    /\ pipe = <<>>
    /\ decoded = <<>>
    /\ last_processed = <<>>
    /\ pending_files = {}
    /\ event_age = None
    /\ todo = {}
    /\ batch = NoBatch
    /\ hist = NoHist
    /\ note = NoNote
    /\ exit = NoExit

\* the file whose tags process_folder's call for file p works on
ScanTarget(p) == IF Suffix(p) = "xmp" THEN WithSuffixEmpty(p) ELSE p

\* the call process_folder makes for file p when the attributes are x
ScanCall(p, x, marker, merge, strip, F) ==
    IF Suffix(p) = "xmp"
    THEN process_xmp_sidecar(p, meta[p], x[ScanTarget(p)], marker,
                             FALSE, merge, strip, F)
    ELSE process_file(p, meta[p], x[p], marker, FALSE, merge, strip, F)

\* one file of process_folder's loop, in the initial scan; raised tells that
\* an exception process_file does not catch is raised for this file
ScanFile(p, F, raised) ==
    LET fn == IF Suffix(p) = "xmp" THEN "process_xmp_sidecar"
              ELSE "process_file"
        t  == ScanTarget(p)
        G  == FaultsAt(p, t, F)
        r  == ScanCall(p, xattr, MARKER_KEYWORD, cfg.merge, cfg.strip, G)
        c  == FolderCounts(fn, r)
    IN  /\ pc = "scan"
        /\ p \in scanLeft
        /\ scanLeft' = scanLeft \ {p}
        /\ IF raised
           THEN /\ pc' = "exited"
                /\ exit' = ExitScanException
                /\ last' = NoCall
                /\ UNCHANGED <<xattr, counts>>
           ELSE /\ xattr' = [xattr EXCEPT ![t] = r.attr]
                /\ last' = Called(fn, p, t, FALSE, cfg.merge, cfg.strip, r)
                /\ counts' = [processed |-> counts.processed + c.processed,
                              tagged |-> counts.tagged + c.tagged,
                              errors |-> counts.errors + c.errors]
                /\ UNCHANGED <<pc, exit>>
        /\ UNCHANGED <<MARKER_KEYWORD, script_MARKER_KEYWORD, meta, exists,
                       mtime, cfg, notifier, pipe, decoded, last_processed,
                       pending_files, event_age, todo, batch, hist, note>>

\* a watcher that does not wait for the end of the scan
ScanFinishedAlways == TRUE
\* the loop over watch_paths, and process_folder's walk in it, has ended
ScanFinished == scanLeft = {}

\* after the scan: look for fswatch and start it
StartNotifier(outcome) ==
    /\ pc = "scan"
    /\ ScanFinished
    /\ CASE outcome = "found" ->
              /\ pc' = "loop"
              /\ notifier' = "running"
              /\ counts' = NoCounts
              /\ last' = NoCall
              /\ UNCHANGED exit
         [] outcome = "not_found" ->
              /\ pc' = "exited"
              /\ exit' = ExitNoFswatch
              /\ UNCHANGED <<notifier, counts, last>>
         [] outcome = "popen_failed" ->
              /\ pc' = "exited"
              /\ exit' = ExitPopenFailed
              /\ UNCHANGED <<notifier, counts, last>>
    /\ UNCHANGED <<MARKER_KEYWORD, script_MARKER_KEYWORD, meta, xattr, exists,
                   mtime, cfg, scanLeft, pipe, decoded, last_processed,
                   pending_files, event_age, todo, batch, hist, note>>

\* select reports the pipe readable after d seconds (a line waits in it, or
\* fswatch has closed it) and readline returns a line. process.stdout is a
\* text stream over the unbuffered pipe: readline returns the next line it
\* has read ahead when there is one, and otherwise reads all that waits in
\* the pipe, returns its first line and keeps the rest
ReadLine(d, gone) ==
    LET ahead == decoded # <<>>
        changed_path == IF ahead THEN Head(decoded) ELSE Head(pipe)
        n == Notification(changed_path, last_processed, pending_files,
                          Later(event_age, d), gone)
    IN  /\ pc = "loop"
        /\ pipe # <<>> \/ (notifier = "ended" /\ ahead)
        /\ gone => Exists(changed_path)
        /\ IF ahead
           THEN decoded' = Tail(decoded) /\ UNCHANGED pipe
           ELSE decoded' = Tail(pipe) /\ pipe' = <<>>
        /\ last_processed' = n.last_processed
        /\ pending_files' = n.pending_files
        /\ event_age' = n.event_age
        /\ exists' = IF n.verdict = "oserror" THEN exists \ {changed_path}
                     ELSE exists
        /\ note' = [verdict |-> n.verdict, path |-> changed_path,
                    mtime |-> n.mtime, last_mtime |-> n.last_mtime]
        /\ hist' = [acc |-> IF n.verdict = "accepted"
                            THEN hist.acc \cup {changed_path} ELSE hist.acc,
                    multi |-> hist.multi \/ changed_path \in hist.acc]
        /\ batch' = NoBatch
        /\ last' = NoCall
        /\ UNCHANGED <<MARKER_KEYWORD, script_MARKER_KEYWORD,
                       meta, xattr, mtime, cfg, pc, scanLeft,
                       counts, notifier, todo, exit>>

\* readline returns '' at the end of the stream: break, watch_directories
\* returns and main calls sys.exit(0)
ReadEOF ==
    /\ pc = "loop"
    /\ pipe = <<>>
    /\ decoded = <<>>
    /\ notifier = "ended"
    /\ pc' = "exited"
    /\ exit' = ExitNotifierEnded
    /\ UNCHANGED <<fvars, exists, mtime, cfg, scanLeft, counts, notifier,
                   pipe, decoded, last_processed, pending_files, event_age,
                   todo, batch, hist, note>>

\* a test that flushes at every timeout
FlushDueAlways(pend, last_event_age, age) == TRUE
\* "if pending_files and last_event_time:
\*      if time.time() - last_event_time >= 1:"
FlushDue(pend, last_event_age, age) ==
    pend # {} /\ last_event_age # None /\ age >= QuietPeriod

\* select times out: nothing waits in the pipe, whatever process.stdout has
\* read ahead; the batch is flushed when the quiet period has passed.
\* elapsed is what time.time() has advanced by since the select began:
\* SelectTimeout, or less when the wall clock was set back meanwhile
PollTimeout(elapsed) ==
    LET age == Later(event_age, elapsed)
    IN  /\ pc = "loop"
        /\ pipe = <<>>
        /\ notifier = "running"
        /\ event_age' = age
        /\ IF FlushDue(pending_files, event_age, age)
           THEN /\ pc' = "batch"
                /\ todo' = pending_files
                /\ batch' = [acc |-> hist.acc, multi |-> hist.multi,
                             calls |-> <<>>]
                /\ hist' = NoHist
           ELSE /\ batch' = NoBatch
                /\ UNCHANGED <<pc, todo, hist>>
        /\ note' = NoNote
        /\ last' = NoCall
        /\ UNCHANGED <<MARKER_KEYWORD, script_MARKER_KEYWORD, meta, xattr,
                       exists, mtime, cfg, scanLeft, counts, notifier, pipe,
                       decoded, last_processed, pending_files, exit>>

\* a loop that takes the whole list as done after its first file
RestOfBatchNone(files, p) == {}
\* "for file_path in files_to_process:" moves on by the one file whose
\* subprocess.run has returned
RestOfBatch(files, p) == files \ {p}

\* one file of the flush: python3 <script> <file> -v [-r], which is main()
\* on that path in a new process: the child takes MARKER_KEYWORD and the
\* strip default from the script file as it is now, and only -r from the
\* arguments of watch_directories. outcome: "run" the child runs to its
\* end; "crash" it ends with a traceback; "timeout" it is killed after 30 s before it wrote;
\* "late" it is killed after 30 s when it had written
BatchFile(p, outcome, F) ==
    LET existed == Exists(p)
        ran == existed /\ outcome \in {"run", "late"}
        r == process_file(p, meta[p], xattr[p], script_MARKER_KEYWORD, FALSE,
                          cfg.merge, STRIP_HIERARCHICAL_PREFIXES, F)
        returncode == IF ~existed \/ outcome = "crash" THEN 1 ELSE 0
        report == BatchReport(cfg.from_service,
                              outcome \in {"timeout", "late"}, returncode,
                              ran /\ r.keywords # {})
        rest == RestOfBatch(todo, p)
    IN  /\ pc = "batch"
        /\ p \in todo
        /\ ~existed => (outcome = "run" /\ F = NoFaults)
        /\ outcome # "run" => F = NoFaults
        /\ todo' = rest
        /\ batch' = [batch EXCEPT !.calls =
                        Append(@, [path |-> p, existed |-> existed,
                                   report |-> report,
                                   marker |-> script_MARKER_KEYWORD,
                                   merge |-> cfg.merge,
                                   strip |-> STRIP_HIERARCHICAL_PREFIXES])]
        /\ IF ran
           THEN /\ xattr' = [xattr EXCEPT ![p] = r.attr]
                /\ last' = Called("process_file", p, p, FALSE, cfg.merge,
                                  STRIP_HIERARCHICAL_PREFIXES, r)
           ELSE /\ last' = NoCall
                /\ UNCHANGED xattr
        /\ IF rest = {}
           THEN /\ pending_files' = ClearBatch(pending_files)
                /\ event_age' = None
                /\ pc' = "loop"
           ELSE UNCHANGED <<pending_files, event_age, pc>>
        /\ note' = NoNote
        /\ UNCHANGED <<MARKER_KEYWORD, script_MARKER_KEYWORD, meta, exists,
                       mtime, cfg, scanLeft, counts, notifier, pipe, decoded,
                       last_processed, hist, exit>>

\* -- the environment --

Running == pc \in {"scan", "loop", "batch"}

\* how many times files were saved or deleted since the start
RECURSIVE SumOver(_, _)
SumOver(f, S) ==
    IF S = {} THEN 0
    ELSE LET x == CHOOSE y \in S : TRUE IN f[x] + SumOver(f, S \ {x})
Changes ==
    SumOver(mtime, Paths) - Cardinality(Paths) + Cardinality(Paths \ exists)

\* what note, last and batch tell of the latest step of the loop is kept
\* until the next step of anyone; the log of a flush is kept to its end
Forget ==
    /\ note' = NoNote
    /\ last' = NoCall
    /\ batch' = IF pc = "batch" THEN batch ELSE NoBatch

\* a program saves the file: its mtime moves on and fswatch, when it runs,
\* writes a line
ExternalModify(p) ==
    /\ Running
    /\ Exists(p)
    /\ Changes < MaxChanges
    /\ mtime' = [mtime EXCEPT ![p] = @ + 1]
    /\ IF notifier = "running"
       THEN /\ Len(pipe) < MaxPipe
            /\ pipe' = Append(pipe, p)
       ELSE UNCHANGED pipe
    /\ Forget
    /\ UNCHANGED <<MARKER_KEYWORD, script_MARKER_KEYWORD,
                   meta, xattr, exists, cfg, pc, scanLeft,
                   counts, notifier, decoded, last_processed, pending_files,
                   event_age, todo, hist, exit>>

\* what the main file holds after it was saved with another keyword
SavedMeta == Metadata(FList({s_sync, s_Blue}), FAbsent, FAbsent)

\* a program saves the main file with another keyword: its content and its
\* mtime change and fswatch, when it runs, writes a line; while fswatch is
\* not yet started nothing records the save
ExternalSave(p) ==
    /\ Running
    /\ p = p_main
    /\ Exists(p)
    /\ Changes < MaxChanges
    /\ meta[p] # SavedMeta
    /\ meta' = [meta EXCEPT ![p] = SavedMeta]
    /\ mtime' = [mtime EXCEPT ![p] = @ + 1]
    /\ IF notifier = "running"
       THEN /\ Len(pipe) < MaxPipe
            /\ pipe' = Append(pipe, p)
       ELSE UNCHANGED pipe
    /\ Forget
    /\ UNCHANGED <<MARKER_KEYWORD, script_MARKER_KEYWORD,
                   xattr, exists, cfg, pc, scanLeft,
                   counts, notifier, decoded, last_processed, pending_files,
                   event_age, todo, hist, exit>>

\* fswatch writes a line for a file whose content did not change: a second
\* event of the same save, an attribute change, a file of another type
ExternalEvent(p) ==
    /\ Running
    /\ notifier = "running"
    /\ Len(pipe) < MaxPipe
    /\ pipe' = Append(pipe, p)
    /\ Forget
    /\ UNCHANGED <<MARKER_KEYWORD, script_MARKER_KEYWORD,
                   meta, xattr, exists, mtime, cfg, pc,
                   scanLeft, counts, notifier, decoded, last_processed,
                   pending_files, event_age, todo, hist, exit>>

\* fswatch writes the lines of two events at once: the events of one save,
\* or of one latency period
ExternalBurst(p, q) ==
    /\ Running
    /\ notifier = "running"
    /\ pipe = <<>>
    /\ pipe' = <<p, q>>
    /\ Forget
    /\ UNCHANGED <<MARKER_KEYWORD, script_MARKER_KEYWORD,
                   meta, xattr, exists, mtime, cfg, pc,
                   scanLeft, counts, notifier, decoded, last_processed,
                   pending_files, event_age, todo, hist, exit>>

\* the file is deleted or moved away
ExternalDelete(p) ==
    /\ Running
    /\ Exists(p)
    /\ Changes < MaxChanges
    /\ exists' = exists \ {p}
    /\ Forget
    /\ UNCHANGED <<MARKER_KEYWORD, script_MARKER_KEYWORD, meta, xattr, mtime,
                   cfg, pc, scanLeft, counts, notifier, pipe, decoded,
                   last_processed, pending_files, event_age, todo, hist,
                   exit>>

\* fswatch ends
NotifierEnds ==
    /\ Running
    /\ notifier = "running"
    /\ notifier' = "ended"
    /\ Forget
    /\ UNCHANGED <<MARKER_KEYWORD, script_MARKER_KEYWORD, meta, xattr, exists,
                   mtime, cfg, pc, scanLeft, counts, pipe, decoded,
                   last_processed, pending_files, event_age, todo, hist,
                   exit>>

NextWatch ==
    \/ \E p \in Paths, F \in Faults, raised \in BOOLEAN :
            ScanFile(p, F, raised)
    \/ \E outcome \in {"found", "not_found", "popen_failed"} :
            StartNotifier(outcome)
    \/ \E d \in 0..(SelectTimeout - 1), gone \in BOOLEAN : ReadLine(d, gone)
    \/ ReadEOF
    \/ PollTimeout(SelectTimeout)
    \/ \E p \in Paths, outcome \in {"run", "crash", "timeout", "late"},
          F \in Faults : BatchFile(p, outcome, F)
    \/ \E p \in Paths : ExternalModify(p)
    \/ \E p \in NotePaths : ExternalEvent(p)
    \/ \E p \in Paths : ExternalDelete(p)
    \/ NotifierEnds

SpecWatch == InitWatch /\ [][NextWatch]_vars

----------------------------------------------------------------------------
(* State machine: a run of the watcher, from the terminal (--watch) or as   *)
(* the service, while the script file is edited and signals arrive          *)

\* the arguments main() passes for --watch [-r] [--keep-prefixes]
TerminalConfigs ==
    {[merge |-> m, strip |-> st, from_service |-> FALSE] :
        m \in BOOLEAN, st \in BOOLEAN}

InitRun ==
    /\ MARKER_KEYWORD \in Markers
    /\ script_MARKER_KEYWORD = MARKER_KEYWORD
    /\ meta = WatchMeta
    /\ xattr = [p \in Paths |-> AttrAbsent]
    /\ last = NoCall
    /\ exists = Paths
    /\ mtime = [p \in Paths |-> 1]
    /\ cfg \in WatchConfigs \cup TerminalConfigs
    /\ pc = "scan"
    /\ scanLeft = Paths
    /\ counts = NoCounts
    /\ notifier = "off"
    /\ pipe = <<>>
    /\ decoded = <<>>
    /\ last_processed = <<>>
    /\ pending_files = {}
    /\ event_age = None
    /\ todo = {}
    /\ batch = NoBatch
    /\ hist = NoHist
    /\ note = NoNote
    /\ exit = NoExit

\* the menu bar's marker toggle rewrites the MARKER_KEYWORD line of the
\* script file; the running watcher keeps the module it has loaded
RewriteConfig ==
    /\ Running
    /\ script_MARKER_KEYWORD' =
            IF script_MARKER_KEYWORD = NoMarker THEN s_sync ELSE NoMarker
    /\ Forget
    /\ UNCHANGED <<MARKER_KEYWORD, meta, xattr, exists, mtime, cfg, pc,
                   scanLeft, counts, notifier, pipe, decoded, last_processed,
                   pending_files, event_age, todo, hist, exit>>

\* a signal arrives while the try block of watch_directories runs: SIGINT
\* raises KeyboardInterrupt, whose handler terminates and reaps fswatch;
\* SIGTERM (launchctl unload) ends the interpreter where it stands
Interrupt(sig) ==
    /\ pc \in {"loop", "batch"}
    /\ pc' = "exited"
    /\ IF sig = "SIGINT"
       THEN /\ notifier' = "reaped"
            /\ exit' = ExitInterrupted
       ELSE /\ exit' = ExitKilled
            /\ UNCHANGED notifier
    /\ Forget
    /\ UNCHANGED <<MARKER_KEYWORD, script_MARKER_KEYWORD, meta, xattr, exists,
                   mtime, cfg, scanLeft, counts, pipe, decoded,
                   last_processed, pending_files, event_age, todo, hist>>

NextRun ==
    \/ \E p \in Paths : ScanFile(p, NoFaults, FALSE)
    \/ StartNotifier("found")
    \/ \E d \in 0..(SelectTimeout - 1) : ReadLine(d, FALSE)
    \/ PollTimeout(SelectTimeout)
    \/ \E p \in Paths : BatchFile(p, "run", NoFaults)
    \/ \E p \in Paths : ExternalEvent(p)
    \/ \E p \in Paths : ExternalSave(p)
    \/ RewriteConfig
    \/ \E sig \in {"SIGINT", "SIGTERM"} : Interrupt(sig)

SpecRun == InitRun /\ [][NextRun]_vars

----------------------------------------------------------------------------
(* State machine: the loop of watch_directories alone, from the moment      *)
(* fswatch runs, with a wall clock that can be set back                     *)

\* the tags the initial scan of the service leaves on the main file: those
\* of the file's own keywords or those of its sidecar, by the order of the
\* scan
ScannedAttrs == {AttrOf({EncodeTag(s_Red)}), AttrOf({EncodeTag(s_Cat)})}

InitLoop ==
    /\ MARKER_KEYWORD = s_sync
    /\ script_MARKER_KEYWORD = MARKER_KEYWORD
    /\ meta = WatchMeta
    /\ xattr \in {f \in [Paths -> ScannedAttrs \cup {AttrAbsent}] :
                     f[p_main] \in ScannedAttrs /\ f[p_sidecar] = AttrAbsent}
    /\ last = NoCall
    /\ exists = Paths
    /\ mtime = [p \in Paths |-> 1]
    /\ cfg \in WatchConfigs
    /\ pc = "loop"
    /\ scanLeft = {}
    /\ counts = NoCounts
    /\ notifier = "running"
    /\ pipe = <<>>
    /\ decoded = <<>>
    /\ last_processed = <<>>
    /\ pending_files = {}
    /\ event_age = None
    /\ todo = {}
    /\ batch = NoBatch
    /\ hist = NoHist
    /\ note = NoNote
    /\ exit = NoExit

NextLoop ==
    \/ \E d \in 0..(SelectTimeout - 1), gone \in BOOLEAN : ReadLine(d, gone)
    \/ ReadEOF
    \/ \E elapsed \in 0..SelectTimeout : PollTimeout(elapsed)
    \/ \E p \in Paths, outcome \in {"run", "crash", "timeout", "late"} :
            BatchFile(p, outcome, NoFaults)
    \/ \E p \in Paths : ExternalModify(p)
    \/ \E p \in NotePaths : ExternalEvent(p)
    \/ \E p \in Paths, q \in Paths : ExternalBurst(p, q)
    \/ \E p \in Paths : ExternalDelete(p)
    \/ NotifierEnds

SpecLoop == InitLoop /\ [][NextLoop]_vars

----------------------------------------------------------------------------
(* State machine: the loop of watch_directories with the notifications that *)
(* the engine's own tag writes cause, for files of any date                 *)

\* st_mtime of a file dated 1970-01-01 00:00 UTC; a file dated earlier (a
\* scan given the date of its original) has a negative one, which fails the
\* test "last_mtime > 0" in the same way
EpochStamp == 0

InitEcho ==
    /\ MARKER_KEYWORD = s_sync
    /\ script_MARKER_KEYWORD = MARKER_KEYWORD
    /\ meta = WatchMeta
    /\ xattr \in {f \in [Paths -> ScannedAttrs \cup {AttrAbsent}] :
                     f[p_main] \in ScannedAttrs /\ f[p_sidecar] = AttrAbsent}
    /\ last = NoCall
    /\ exists = Paths
    /\ mtime \in [Paths -> {EpochStamp, 1}]
    /\ cfg \in WatchConfigs
    /\ pc = "loop"
    /\ scanLeft = {}
    /\ counts = NoCounts
    /\ notifier = "running"
    /\ pipe = <<>>
    /\ decoded = <<>>
    /\ last_processed = <<>>
    /\ pending_files = {}
    /\ event_age = None
    /\ todo = {}
    /\ batch = NoBatch
    /\ hist = NoHist
    /\ note = NoNote
    /\ exit = NoExit

\* a program changes a file and keeps the file's date, or a file is copied
\* in with its date: fswatch writes a line for a path the loop has not yet
\* seen
FirstEvent(p) ==
    /\ p \notin DOMAIN last_processed
    /\ ExternalEvent(p)

\* fswatch runs with --event AttributeModified: the xattr write or delete
\* that the latest call made on a file is reported as a line for that file;
\* the write leaves st_mtime as it is
OwnWriteEvent ==
    /\ Running
    /\ notifier = "running"
    /\ last.fn # "none"
    /\ Mutating(last.ops) # <<>>
    /\ Len(pipe) < MaxPipe
    /\ pipe' = Append(pipe, last.target)
    /\ Forget
    /\ UNCHANGED <<MARKER_KEYWORD, script_MARKER_KEYWORD,
                   meta, xattr, exists, mtime, cfg, pc,
                   scanLeft, counts, notifier, decoded, last_processed,
                   pending_files, event_age, todo, hist, exit>>

LoopReads == \E d \in 0..(SelectTimeout - 1) : ReadLine(d, FALSE)
LoopRuns ==
    \E p \in Paths, outcome \in {"run", "crash", "timeout", "late"} :
        BatchFile(p, outcome, NoFaults)

NextEcho ==
    \/ LoopReads
    \/ PollTimeout(SelectTimeout)
    \/ LoopRuns
    \/ \E p \in Paths : ExternalModify(p)
    \/ \E p \in Paths : FirstEvent(p)
    \/ OwnWriteEvent

\* the loop is one thread that never waits but in select, and a child ends
\* or is killed after 30 s: each of its steps is taken when it stays possible
SpecEcho ==
    /\ InitEcho /\ [][NextEcho]_vars
    /\ WF_vars(LoopReads) /\ WF_vars(PollTimeout(SelectTimeout))
    /\ WF_vars(LoopRuns)

----------------------------------------------------------------------------
(* State machine: one process_folder pass over the folder, as main() and    *)
(* watch_directories run it, for every marker, content, tag set and mode    *)

\* what the main file of the folder can hold: the contents above, one
\* hierarchical keyword alone (Scenario B), and one keyword that exiftool
\* prints as a JSON number
FolderMetas ==
    MainMetas \cup { Metadata(FList({s_AB}), FAbsent, FAbsent),
                     Metadata(FNum(s_7), FAbsent, FList({s_Stale})) }

InitScan ==
    /\ MARKER_KEYWORD \in Markers
    /\ script_MARKER_KEYWORD = MARKER_KEYWORD
    /\ meta \in {f \in [Paths -> FolderMetas \cup SidecarMetas] :
                    f[p_main] \in FolderMetas /\ f[p_sidecar] \in SidecarMetas}
    /\ xattr \in {f \in [Paths -> FinderAttrs] : f[p_sidecar] = AttrAbsent}
    /\ last = NoCall
    /\ exists = Paths
    /\ mtime = [p \in Paths |-> 1]
    /\ cfg \in TerminalConfigs
    /\ pc = "scan"
    /\ scanLeft = Paths
    /\ counts = NoCounts
    /\ notifier = "off"
    /\ pipe = <<>>
    /\ decoded = <<>>
    /\ last_processed = <<>>
    /\ pending_files = {}
    /\ event_age = None
    /\ todo = {}
    /\ batch = NoBatch
    /\ hist = NoHist
    /\ note = NoNote
    /\ exit = NoExit

\* os.walk yields the files in the order of the directory listing: any order
NextScan == \E p \in Paths : ScanFile(p, NoFaults, FALSE)

SpecScan == InitScan /\ [][NextScan]_vars

----------------------------------------------------------------------------
(* The terms of the specification, for stating the claims *)

\* The substring after the last '|' of a hierarchical keyword
LeafOf(k) ==
    IF Positions(k, "|") = {} THEN k
    ELSE SubSeq(k, SetMax(Positions(k, "|")) + 1, Len(k))

\* KeywordNormalizer step 1: the marker gate says skip
Skipped(marker, R) == marker # NoMarker /\ marker \notin R

\* KeywordNormalizer steps 2 and 3: the EffectiveKeywordSet of R
Effective(marker, strip, R) ==
    LET kept == {k \in R : marker = NoMarker \/ Lower(k) # Lower(marker)}
    IN  IF strip THEN {LeafOf(k) : k \in kept} ELSE kept

\* The RawKeywordSet of the file the last call read
LastRaw == get_xmp_keywords(meta[last.path], FALSE, FALSE)
LastSkipped == Skipped(MARKER_KEYWORD, LastRaw)
LastEffective == Effective(MARKER_KEYWORD, last.strip, LastRaw)

\* The attribute of the last call's target now, and its TagSet before and now
LastAttr == xattr[last.target]
TagsBefore == TagSet(last.before)
TagsAfter == TagSet(LastAttr)

\* The last call ran to its end with no tool failure
CleanCall == last.fn # "none" /\ last.hit = {}
\* ... and was a real (not dry) run of process_file
CleanRun == CleanCall /\ last.fn = "process_file" /\ ~last.dry_run

LastWrites == SelectSeq(last.ops, LAMBDA o : o.op = "write")
Range(q) == {q[i] : i \in 1..Len(q)}

----------------------------------------------------------------------------
(* Claims *)

\* C1. Replace exactness: after a file that is not skipped is processed in
\* replace mode, its TagSet equals its EffectiveKeywordSet, and when that set
\* is empty the tag attribute is absent.
C1_ReplaceExactness ==
    (CleanRun /\ ~last.merge /\ ~LastSkipped)
        => /\ TagsAfter = LastEffective
           /\ (LastEffective = {} => ~LastAttr.present)

\* C2. Merge union and monotonicity: after a file is processed in merge mode
\* its TagSet equals the prior TagSet united with its EffectiveKeywordSet,
\* and so contains the prior TagSet.
C2_MergeUnion ==
    (CleanRun /\ last.merge /\ ~LastSkipped)
        => /\ TagsAfter = TagsBefore \cup LastEffective
           /\ TagsBefore \subseteq TagsAfter

\* C3. Skip semantics: when a marker is configured and is not in the file's
\* RawKeywordSet (compared with case), processing the file, in either mode,
\* calls TagStore not at all and leaves the tags as they were.
C3_SkipSemantics ==
    (last.fn # "none" /\ LastSkipped)
        => last.ops = <<>> /\ LastAttr = last.before

\* C3 witness: a replace-mode run over a file that has keywords but not the
\* marker, and tags to lose.
C3_Witness ==
    /\ CleanRun /\ ~last.merge /\ LastSkipped
    /\ LastRaw # {} /\ last.before.present

\* C4 as stated. Marker stripping: when the RawKeywordSet holds the marker,
\* no set of tags written (for the file or through its sidecar) holds a
\* string equal to the marker when case is ignored.
C4_MarkerNeverWritten ==
    (last.fn # "none" /\ MARKER_KEYWORD # NoMarker /\ MARKER_KEYWORD \in LastRaw)
        => \A o \in Range(LastWrites) :
              \A t \in o.tags : Lower(t) # Lower(MARKER_KEYWORD)

\* C4 as amended. When the RawKeywordSet holds the marker, the keywords the
\* call settles on never hold a string equal to the marker when case is
\* ignored, and a written tag that does equal it is one the file already had,
\* carried over by merge mode.
C4_MarkerOnlyCarriedOver ==
    (last.fn # "none" /\ MARKER_KEYWORD # NoMarker /\ MARKER_KEYWORD \in LastRaw)
        => /\ \A k \in last.keywords : Lower(k) # Lower(MARKER_KEYWORD)
           /\ \A o \in Range(LastWrites) :
                 \A t \in o.tags :
                    Lower(t) = Lower(MARKER_KEYWORD)
                        => last.merge /\ t \in TagsBefore

\* C4 witness: a replace-mode write for a file whose keywords hold the marker
\* in two spellings.
C4_Witness ==
    /\ CleanCall /\ ~last.merge /\ LastWrites # <<>>
    /\ MARKER_KEYWORD # NoMarker /\ MARKER_KEYWORD \in LastRaw
    /\ \E k \in LastRaw : k # MARKER_KEYWORD /\ Lower(k) = Lower(MARKER_KEYWORD)

\* C5. Prefix reduction: with strip_prefixes enabled, the keywords a call
\* settles on are the EffectiveKeywordSet with every hierarchical keyword
\* reduced to its leaf, and no tag written in replace mode contains '|'.
C5_PrefixReduction ==
    (CleanRun /\ last.strip /\ ~LastSkipped)
        => /\ last.keywords = Effective(MARKER_KEYWORD, TRUE, LastRaw)
           /\ (~last.merge =>
                  \A o \in Range(LastWrites) :
                     \A t \in o.tags : Positions(t, "|") = {})

\* C6. Scenario A: with marker "sync", strip enabled and merge mode, a file
\* with raw keywords {"sync", "Animals|Cat", "Red"} and tags {"Blue"} ends
\* with tags exactly {"Blue", "Cat", "Red"}.
C6_ScenarioA ==
    ( /\ CleanRun /\ last.merge /\ last.strip
      /\ MARKER_KEYWORD = s_sync
      /\ LastRaw = {s_sync, s_AnimCat, s_Red}
      /\ TagsBefore = {s_Blue} )
        => TagsAfter = {s_Blue, s_Cat, s_Red}

\* C7. Empty effective set: for a file that the marker gate does not skip and
\* whose EffectiveKeywordSet is empty (a file with no keywords at all when no
\* marker is configured included), merge mode writes nothing and replace
\* mode clears the file's tags.
C7_EmptyEffective ==
    (CleanRun /\ ~LastSkipped /\ LastEffective = {})
        => IF last.merge
           THEN Mutating(last.ops) = <<>> /\ LastAttr = last.before
           ELSE ~LastAttr.present

\* C8. Scenario D: when the marker is configured and present and nothing is
\* left after its removal, merge mode writes nothing and leaves the tags as
\* they were, and replace mode removes the tag attribute with one clear (the
\* marker-absent skip makes no TagStore call at all).
C8_ScenarioD ==
    ( /\ CleanRun
      /\ MARKER_KEYWORD # NoMarker /\ MARKER_KEYWORD \in LastRaw
      /\ LastEffective = {} )
        => IF last.merge
           THEN Mutating(last.ops) = <<>> /\ LastAttr = last.before
           ELSE /\ last.ops = <<OpClear(last.path)>>
                /\ ~LastAttr.present /\ TagsAfter = {}

\* C8 witness: a replace-mode run over a tagged file whose only keyword is
\* the marker.
C8_Witness ==
    /\ CleanRun /\ ~last.merge
    /\ MARKER_KEYWORD # NoMarker /\ LastRaw = {MARKER_KEYWORD}
    /\ last.before.present /\ TagsBefore # {}

\* C9. Idempotence of state: a second pass over the same file with the same
\* arguments, no tool failure in either pass and no edit of the tags in
\* between leaves the tag attribute, hence the TagSet, as the first pass
\* left it.
C9_IdempotentState ==
    last.repeat => LastAttr = last.before /\ TagsAfter = TagsBefore

\* C9 witness: a second merge pass that read tags and wrote.
C9_Witness ==
    /\ last.repeat /\ last.merge /\ ~last.dry_run
    /\ LastWrites # <<>> /\ last.before.present
    /\ last.keywords # {}

----------------------------------------------------------------------------
(* Claims about the watch loop, checked under SpecWatch *)

\* how many subprocesses the current or latest flush has run for p
CallsFor(p) ==
    Cardinality({i \in 1..Len(batch.calls) : batch.calls[i].path = p})
\* the state a flush leaves when its last file is done
FlushEnded == pc = "loop" /\ batch.calls # <<>>

\* the lines fswatch has written that readline has not yet returned
Unread == decoded \o pipe

\* C11. Debounce coalescing: however many lines named a path before the
\* batch that holds it was flushed, the flush runs the per-file processing
\* for that path exactly once, and runs it for no path that was not added
\* since the previous flush; while the flush runs, no path has been run twice
\* and the paths still to run are the added ones not yet run.
C11_DebounceCoalescing ==
    /\ FlushEnded =>
          \A p \in Paths : CallsFor(p) = IF p \in batch.acc THEN 1 ELSE 0
    /\ pc = "batch" =>
          \A p \in Paths :
              /\ CallsFor(p) <= 1
              /\ p \in todo <=> (p \in batch.acc /\ CallsFor(p) = 0)

\* C11 witness: a flush has ended whose only path was named by at least two
\* lines before the flush, and it was run once.
C11_Witness ==
    /\ FlushEnded /\ batch.multi
    /\ \E p \in Paths : batch.acc = {p} /\ CallsFor(p) = 1

\* a line is read that names an existing file whose modification time equals
\* its watermark
ReadsUnchanged ==
    /\ pc = "loop" /\ Unread # <<>> /\ Unread' = Tail(Unread)
    /\ Exists(Head(Unread))
    /\ Head(Unread) \in DOMAIN last_processed
    /\ last_processed[Head(Unread)] = mtime[Head(Unread)]

\* C12. Duplicate suppression: a line for a path whose modification time
\* equals the watermark recorded for it is discarded: the batch, the
\* watermarks and the time of the latest addition stay as they are, so the
\* path gets no second batch entry for that modification time, whether or
\* not the batch of the first line was flushed in between.
C12_DuplicateSuppression ==
    [][ReadsUnchanged =>
          /\ pending_files' = pending_files
          /\ last_processed' = last_processed
          /\ hist'.acc = hist.acc
          /\ event_age' \in {Later(event_age, d) : d \in 0..(SelectTimeout - 1)}
          /\ note'.verdict \in {"duplicate", "oserror"}]_vars

\* C13. Sidecar rule in both phases: whenever a .xmp path is processed, in
\* the initial scan or in a flushed batch, the call works on the companion
\* main file, and no TagStore write or clear targets a .xmp path.
C13_SidecarRule ==
    /\ (last.fn # "none" /\ Suffix(last.path) = "xmp")
          => last.target = WithSuffixEmpty(last.path)
    /\ \A o \in Range(Mutating(last.ops)) : Suffix(o.path) # "xmp"
    /\ ~xattr[p_sidecar].present

\* C14. Per-file failure isolation: no failure for one file keeps the other
\* files of the scan or batch from being attempted; every listed file of the
\* scan is attempted before the scan is left, every path of a flushed batch is
\* run exactly once, and the process goes on.
C14_FailureIsolation ==
    /\ pc # "scan" => scanLeft = {}
    /\ exit.cause # "scan_exception"
    /\ FlushEnded => \A p \in batch.acc : CallsFor(p) = 1

C16_NotifierUnavailable ==
    exit.cause \in {"no_fswatch", "popen_failed"} =>
        /\ exit.code > 0 /\ exit.reported
        /\ pc = "exited" /\ notifier = "off"
        /\ DOMAIN last_processed = {} /\ pending_files = {}
        /\ event_age = None
        /\ note = NoNote /\ hist = NoHist /\ batch = NoBatch

\* C16 witness: the initial scan has tagged the main file and the process
\* has then ended because fswatch is not installed.
C16_Witness ==
    /\ exit.cause = "no_fswatch" /\ exit.code = 1
    /\ scanLeft = {} /\ xattr[p_main].present

\* C17. Metadata read failure: when exiftool fails for a file, the file's
\* tags are not modified and the failure is counted as an error for that
\* file.
C17_MetadataReadFailure ==
    (last.fn # "none" /\ last.hit \cap {"exif1", "exif2"} # {})
        => /\ Mutating(last.ops) = <<>>
           /\ LastAttr = last.before
           /\ FolderCounts(last.fn, last).errors = 1

\* C18. Tag write failure: every failed TagStore write or clear, for a main
\* file or through its sidecar, is reported as a failure of that file and
\* counted in the error counter.
C18_TagWriteFailure ==
    "store" \in last.hit
        => /\ ~last.success
           /\ FolderCounts(last.fn, last).errors = 1

\* C19. Merge with a failed tag read: when the TagStore read fails for a
\* file that has tags, the file is counted as an error and none of its tags
\* is removed or overwritten.
C19_MergeReadFailure ==
    (last.merge /\ "read" \in last.hit)
        => /\ TagsBefore \subseteq TagsAfter
           /\ ~last.success
           /\ FolderCounts(last.fn, last).errors = 1

\* C20. Path vanished: a path that no longer exists when its line is read
\* or when its batch is processed is skipped silently: nothing is reported
\* for it.
C20_PathVanished ==
    \A i \in 1..Len(batch.calls) :
        ~batch.calls[i].existed => batch.calls[i].report = "none"

----------------------------------------------------------------------------
(* Claims about whole passes and runs *)

\* the orders in which the files of S can be processed
Orders(S) ==
    {o \in [1..Cardinality(S) -> S] : \A i, j \in DOMAIN o : o[i] = o[j] => i = j}

\* the attributes after process_folder has visited the files in this order
RECURSIVE AfterScan(_, _)
AfterScan(x, order) ==
    IF order = <<>> THEN x
    ELSE LET p == Head(order)
             r == ScanCall(p, x, MARKER_KEYWORD, cfg.merge, cfg.strip, NoFaults)
         IN  AfterScan([x EXCEPT ![ScanTarget(p)] = r.attr], Tail(order))

\* the attributes after a flush has run its subprocesses in this order
RECURSIVE AfterBatch(_, _)
AfterBatch(x, order) ==
    IF order = <<>> THEN x
    ELSE LET p == Head(order)
             r == process_file(p, meta[p], x[p], script_MARKER_KEYWORD, FALSE,
                               cfg.merge, STRIP_HIERARCHICAL_PREFIXES, NoFaults)
         IN  AfterBatch([x EXCEPT ![p] = r.attr], Tail(order))

TagSets(x) == [p \in Paths |-> TagSet(x[p])]

\* C21. Order independence: whatever the order in which one scan or one
\* batch processes its files (a main file and its sidecar included), every
\* file ends with the same TagSet: after each file of the scan, every order
\* of the files still to come leads to the tag sets that every order of the
\* files led to before it, and every order of a batch leads to the same tag
\* sets.
C21_OrderIndependence ==
    [][ /\ \A o1 \in Orders(scanLeft'), o2 \in Orders(scanLeft) :
              TagSets(AfterScan(xattr', o1)) = TagSets(AfterScan(xattr, o2))
        /\ \A o1, o2 \in Orders(Paths) :
              TagSets(AfterBatch(xattr, o1)) = TagSets(AfterBatch(xattr, o2))
      ]_vars

\* the step runs the flush's subprocess for file p
RunsChild(p) ==
    /\ pc = "batch" /\ p \in todo /\ todo' = todo \ {p}
    /\ Len(batch'.calls) = Len(batch.calls) + 1

\* C22. Configuration is fixed per run: every reconciliation of a run of the
\* watch loop, in the scan and in every flush, works with the marker keyword,
\* the mode and the strip flag the run started with, so a flushed file gets
\* the tags process_file gives under those values, also after the script
\* file was rewritten.
C22_ConfigFixedPerRun ==
    [][\A p \in Paths : RunsChild(p) =>
          LET c == batch'.calls[Len(batch'.calls)]
              r == process_file(p, meta[p], xattr[p], MARKER_KEYWORD, FALSE,
                                cfg.merge, cfg.strip, NoFaults)
          IN  /\ c.marker = MARKER_KEYWORD
              /\ c.merge = cfg.merge
              /\ c.strip = cfg.strip
              /\ xattr'[p] = r.attr
      ]_vars

\* C23. Clean shutdown: when an interrupt or a termination signal ends the
\* process while it watches (idle, reading or in a flush), fswatch has been
\* terminated and reaped before the process is gone.
C23_CleanShutdown ==
    exit.cause \in {"interrupt", "sigterm"} => notifier = "reaped"

\* the values of one metadata field, whatever their JSON type
FieldValues(f) ==
    CASE f.kind = "list" -> f.items
      [] f.kind = "str"  -> {f.val}
      [] f.kind = "num"  -> {f.val}
      [] OTHER           -> {}

\* the RawKeywordSet of the specification: the values of Subject and Keywords
RawKeywordSet(m) == FieldValues(m.Subject) \cup FieldValues(m.Keywords)

\* the file the last call read has the marker, or none is configured
LastGateOpen ==
    MARKER_KEYWORD = NoMarker \/ MARKER_KEYWORD \in RawKeywordSet(meta[last.path])

\* C24. Scenario B: with no marker, strip disabled and replace mode, a file
\* whose raw keywords are {"A|B"} ends with tags exactly {"A|B"} whatever
\* tags it had; and with strip disabled every hierarchical keyword of a
\* processed file that is not the marker is among the tags written, verbatim.
C24_ScenarioB ==
    /\ ( /\ CleanRun /\ ~last.merge /\ ~last.strip
         /\ MARKER_KEYWORD = NoMarker
         /\ RawKeywordSet(meta[last.path]) = {s_AB} )
          => /\ TagsAfter = {s_AB}
             /\ last.ops = <<OpWrite(last.path, {s_AB})>>
    /\ (CleanCall /\ ~last.dry_run /\ ~last.strip /\ LastGateOpen)
          => \A k \in RawKeywordSet(meta[last.path]) :
                (Positions(k, "|") # {}
                    /\ (MARKER_KEYWORD = NoMarker
                            \/ Lower(k) # Lower(MARKER_KEYWORD)))
                  => /\ k \in TagsAfter
                     /\ \E o \in Range(LastWrites) : k \in o.tags

\* C24 witness: Scenario B was run on a file that had other tags.
C24_Witness ==
    /\ CleanRun /\ ~last.merge /\ ~last.strip
    /\ MARKER_KEYWORD = NoMarker
    /\ RawKeywordSet(meta[last.path]) = {s_AB}
    /\ last.before.present /\ TagsBefore # {} /\ s_AB \notin TagsBefore
    /\ TagsAfter = {s_AB}

\* C25. Raw keyword extraction: the keywords read from a file are exactly
\* the values of its Subject and Keywords fields, and a value found only in
\* HierarchicalSubject is neither among them nor among the tags written
\* (unless the file already had it as a tag and merge mode carried it over).
C25_RawKeywordExtraction ==
    last.fn # "none" =>
        LET m == meta[last.path]
            stale == FieldValues(m.HierarchicalSubject) \ RawKeywordSet(m)
        IN  /\ LastRaw = RawKeywordSet(m)
            /\ \A v \in stale :
                  /\ v \notin LastRaw /\ v \notin last.keywords
                  /\ \A o \in Range(LastWrites) :
                        v \in o.tags => (last.merge /\ v \in TagsBefore)

\* C26. Dry run: a call of process_file or process_xmp_sidecar with dry_run
\* set, in either mode and for every keyword set, makes no TagStore write or
\* clear and leaves the tag attribute of every file as it was; a dry run of
\* a folder is a sequence of such calls.
C26_DryRun ==
    [][(last'.fn # "none" /\ last'.dry_run)
          => /\ xattr' = xattr
             /\ Mutating(last'.ops) = <<>>
             /\ last'.before = xattr'[last'.target]
      ]_vars

\* C26 witness: a dry run in replace mode settled on keywords for a file
\* whose tags are others, and the tags are still there.
C26_Witness ==
    /\ last.fn = "process_file" /\ last.dry_run /\ ~last.merge
    /\ last.keywords # {} /\ last.before.present
    /\ TagsBefore # last.keywords /\ TagsAfter = TagsBefore

----------------------------------------------------------------------------
(* Claims about the batcher, checked under SpecLoop *)

\* a step that begins a flush, ends one, or reads a line
FlushBegins == pc = "loop" /\ pc' = "batch"
FlushEnds == pc = "batch" /\ pc' = "loop"
ReadsLine == pc = "loop" /\ Unread # <<>> /\ Unread' = Tail(Unread)

\* C27. Quiescence rule: a flush begins only in a poll iteration that timed
\* out, no line that fswatch has written being left unread, and only when the
\* batch is not empty and at least QuietPeriod has passed since the latest
\* addition; the flush hands every pending path to processing and leaves the
\* batch empty; reading a line never begins a flush.
C27_QuiescenceRule ==
    [][ /\ FlushBegins =>
              /\ Unread = <<>> /\ Unread' = <<>>
              /\ pending_files # {} /\ event_age # None
              /\ event_age' >= QuietPeriod
              /\ todo' = pending_files /\ pending_files' = pending_files
        /\ FlushEnds =>
              /\ pending_files' = {} /\ todo' = {} /\ event_age' = None
              /\ \A p \in pending_files : CallsFor(p)' = 1
        /\ ReadsLine => (pc' = "loop" /\ todo' = todo /\ todo = {})
        /\ pc' = "batch" => pc \in {"loop", "batch"}
      ]_vars

\* C28. Eventual processing, in its finite-run form: every path accepted
\* into the batch is handed to per-file processing before the loop is left,
\* also when the stream of fswatch ends while the batch is still pending.
C28_EventualProcessing ==
    (pc = "exited" /\ exit.cause = "notifier_ended") =>
        (pending_files = {} /\ todo = {})

\* a select timeout while the batch is empty: the loop takes a step and
\* neither the files nor fswatch do
EmptyTimeout ==
    /\ pc = "loop" /\ pending_files = {}
    /\ pipe = <<>> /\ notifier = "running"
    /\ pipe' = pipe /\ notifier' = notifier
    /\ exists' = exists /\ mtime' = mtime
    /\ script_MARKER_KEYWORD' = script_MARKER_KEYWORD

\* C29. Non-empty batches: every batch handed to processing holds at least
\* one path, and while a flush runs there is a path still to run; a select
\* timeout with an empty batch starts no flush, runs nothing and leaves the
\* loop's state and every file's tags as they were.
C29_NonEmptyBatches ==
    [][ /\ FlushBegins => (batch'.acc # {} /\ todo' = batch'.acc)
        /\ pc' = "batch" => (todo' # {} /\ todo' \subseteq batch'.acc)
        /\ EmptyTimeout =>
              /\ pc' = "loop" /\ todo' = {} /\ pending_files' = {}
              /\ last_processed' = last_processed
              /\ event_age' = event_age
              /\ decoded' = decoded
              /\ xattr' = xattr
              /\ exit' = exit
              /\ last'.fn = "none" /\ batch'.calls = <<>>
      ]_vars

\* C29 witness: after a flush of an accepted path has run, a select timeout
\* has passed with an empty batch: no file was saved or deleted, fswatch
\* runs, nothing is left to read, and the loop waits with the watermarks
\* it had.
C29_Witness ==
    /\ pc = "loop" /\ notifier = "running" /\ Unread = <<>>
    /\ exists = Paths /\ \A p \in Paths : mtime[p] = 1
    /\ last_processed # <<>> /\ pending_files = {} /\ event_age = None
    /\ note = NoNote /\ batch = NoBatch /\ last = NoCall

\* the batcher's state is as it was, the clock apart: the watermarks, the
\* batch and the time of the latest addition
BatcherKept ==
    /\ last_processed' = last_processed
    /\ pending_files' = pending_files
    /\ event_age' \in {Later(event_age, d) : d \in 0..(SelectTimeout - 1)}

\* C30. Discard leaves state unchanged: reading a line whose extension is
\* not supported, whose file does not exist, whose stat fails or whose
\* modification time equals the watermark changes neither the watermarks nor
\* the batch nor the time of the latest addition; reading any other line
\* sets the watermark of that path to the file's modification time, leaves
\* every other watermark as it was, adds that path and no other to the
\* batch, and makes now the time of the latest addition.
C30_DiscardLeavesState ==
    [][ReadsLine =>
          LET p == Head(Unread)
              discarded ==
                  \/ Suffix(p) \notin SUPPORTED_EXTENSIONS
                  \/ ~Exists(p)
                  \/ p \notin exists'
                  \/ DictGet(last_processed, p, 0) = mtime[p]
          IN  /\ note'.path = p
              /\ discarded <=> note'.verdict # "accepted"
              /\ discarded => BatcherKept
              /\ ~discarded =>
                    /\ DOMAIN last_processed' = DOMAIN last_processed \cup {p}
                    /\ last_processed'[p] = mtime[p]
                    /\ \A q \in DOMAIN last_processed \ {p} :
                          last_processed'[q] = last_processed[q]
                    /\ pending_files' = pending_files \cup {p}
                    /\ event_age' = 0
      ]_vars

\* C30 witness: while a.jpg waits in the batch, a line for a file of another
\* type was read a second after the addition and discarded: the batch and
\* the watermarks are those of a.jpg alone.
C30_Witness ==
    /\ note.verdict = "unsupported" /\ note.path = p_other
    /\ pending_files = {p_main} /\ DOMAIN last_processed = {p_main}
    /\ event_age = 1

----------------------------------------------------------------------------
(* Claims about the phases of the watcher *)

\* C31. Phase ordering: while the initial scan runs, fswatch is not started,
\* no line has been written or read, nothing is in the batch and no flush
\* has begun; once fswatch has been started, or the loop or a flush runs,
\* every file of the scan has been visited.
C31_PhaseOrdering ==
    /\ pc = "scan" =>
          /\ notifier = "off" /\ Unread = <<>>
          /\ note = NoNote /\ pending_files = {} /\ last_processed = <<>>
          /\ todo = {} /\ batch = NoBatch
    /\ (notifier # "off" \/ pc \in {"loop", "batch"}) => scanLeft = {}

\* C31 witness: the scan has visited every file, fswatch runs, and the
\* first line was read and its path accepted.
C31_Witness ==
    /\ pc = "loop" /\ notifier = "running" /\ scanLeft = {}
    /\ note.verdict = "accepted" /\ pending_files = {note.path}
    /\ DOMAIN last_processed = {note.path}

\* C32. Sequential processing: while a flush runs, a step of the watcher
\* runs exactly one file of the list, the one whose record it appends, and
\* takes that file alone off the list; it reads no line, and it changes no
\* watermark and not the batch before the clear that ends the flush; the
\* lines fswatch writes meanwhile stay unread.
C32_SequentialProcessing ==
    [][pc = "batch" =>
          LET n == Len(batch.calls)
              n2 == Len(batch'.calls)
          IN  /\ last_processed' = last_processed
              /\ decoded' = decoded
              /\ Len(Unread') >= Len(Unread)
              /\ SubSeq(Unread', 1, Len(Unread)) = Unread
              /\ note' = NoNote
              /\ pending_files' = IF pc' = "batch" THEN pending_files ELSE {}
              /\ n2 \in {n, n + 1}
              /\ SubSeq(batch'.calls, 1, n) = batch.calls
              /\ n2 = n => (todo' = todo /\ xattr' = xattr /\ pc' = pc)
              /\ n2 = n + 1 =>
                    LET c == batch'.calls[n2]
                    IN  /\ c.path \in todo
                        /\ todo' = todo \ {c.path}
                        /\ \A q \in Paths \ {c.path} : xattr'[q] = xattr[q]
                        /\ pc' = IF todo' = {} THEN "loop" ELSE "batch"
      ]_vars

\* C32 witness: a flush of two files has ended, one file run after the
\* other, and a line that fswatch wrote during the flush is still unread.
C32_Witness ==
    /\ FlushEnded /\ Len(batch.calls) = 2
    /\ batch.calls[1].path # batch.calls[2].path
    /\ Unread # <<>> /\ decoded = <<>>
    /\ pending_files = {} /\ note = NoNote

----------------------------------------------------------------------------
(* Claims about the TagStore and the sidecar, checked on single calls and   *)
(* on folder passes                                                         *)

\* the last call was a real replace-mode run of process_file, with no tool
\* failure, over a file that passes the marker gate with nothing left to
\* set: it asks the TagStore to set the empty list
SetsEmptyList ==
    /\ CleanRun /\ ~last.merge
    /\ LastRaw # {} /\ ~LastSkipped /\ LastEffective = {}

\* C33. Empty set equals absent attribute: a call that asks for the empty
\* tag list makes one clear and no write, succeeds, and leaves the attribute
\* absent, also when it was absent before; a read of the attribute it leaves
\* gives the empty TagSet; and no call ever writes an empty list, so no file
\* holds an attribute with no tag in it.
C33_EmptySetIsAbsent ==
    /\ \A o \in Range(last.ops) : o.op = "write" => o.tags # {}
    /\ \A p \in Paths : xattr[p].present => xattr[p].tags # {}
    /\ SetsEmptyList =>
          /\ last.success
          /\ last.ops = <<OpClear(last.target)>>
          /\ LastAttr = AttrAbsent
          /\ get_finder_tags(LastAttr, FALSE) = {}

\* C33 witness: the empty list was set on a file that had no tag attribute.
C33_Witness ==
    /\ SetsEmptyList /\ ~last.before.present
    /\ last.success /\ ~LastAttr.present

\* the last call was a real replace-mode run of process_xmp_sidecar, with no
\* tool failure, over a sidecar that carries the marker and has nothing left
\* once the marker is removed
SidecarSetsEmptyList ==
    /\ last.fn = "process_xmp_sidecar" /\ last.hit = {}
    /\ ~last.dry_run /\ ~last.merge /\ Exists(last.target)
    /\ MARKER_KEYWORD # NoMarker
    /\ MARKER_KEYWORD \in RawKeywordSet(meta[last.path])
    /\ Effective(MARKER_KEYWORD, last.strip,
                 RawKeywordSet(meta[last.path])) = {}

\* C34. Sidecar reconciliation follows the rules of a main file: in replace
\* mode a sidecar that carries the marker and has no keyword left after the
\* marker's removal gets the tags of its main file cleared, and a sidecar
\* whose main file is missing is counted in the errors of the scan.
C34_SidecarSameRules ==
    /\ SidecarSetsEmptyList => ~LastAttr.present
    /\ (last.fn = "process_xmp_sidecar" /\ ~Exists(last.target)) =>
          counts.errors >= 1

----------------------------------------------------------------------------
(* Claims about the watermark, checked under SpecEcho *)

\* the loop waits in select with nothing in the batch
Idle == pc = "loop" /\ pending_files = {} /\ todo = {}

\* C35. Own writes do not retrigger work: when files are changed finitely
\* often, and the only other lines are those that the engine's own tag
\* writes cause, the loop runs finitely many flushes and then stays idle
\* with an empty batch.
C35_OwnWritesDoNotRetrigger == <>[]Idle

\* the latest flush ran p and the run failed: the child exited with an error
\* or was killed at its timeout
FailedInFlush(p) ==
    \E i \in DOMAIN batch.calls :
        /\ batch.calls[i].path = p
        /\ batch.calls[i].report \in {"error", "exception"}

\* C36. The watermark is set on acceptance and never rolled back: an accepted
\* line sets the watermark of its path to the file's modification time
\* before any flush runs the path; no step of a flush changes a watermark,
\* whatever the outcome of the runs; and a line read after a flush in which
\* the path's run failed, the file's modification time being still the
\* watermark, is discarded: the file is not retried.
C36_WatermarkNotRolledBack ==
    [][ /\ (ReadsLine /\ note'.verdict = "accepted") =>
              /\ note'.path \in DOMAIN last_processed'
              /\ last_processed'[note'.path] = mtime[note'.path]
              /\ pc' = "loop" /\ todo' = {}
        /\ FlushBegins => \A p \in todo' : p \in DOMAIN last_processed
        /\ pc = "batch" => last_processed' = last_processed
        /\ ( /\ ReadsLine /\ FlushEnded /\ FailedInFlush(Head(Unread))
             /\ Head(Unread) \in exists'
             /\ mtime[Head(Unread)] = last_processed[Head(Unread)] )
              => BatcherKept
      ]_vars

----------------------------------------------------------------------------
(* Claims about changes made while the watcher starts, checked under SpecRun *)

\* the loop waits in select, fswatch runs, every line it wrote was read and
\* every accepted path was run
Quiet ==
    /\ pc = "loop" /\ notifier = "running"
    /\ Unread = <<>> /\ pending_files = {} /\ todo = {}

\* C37. Changes during the initial scan are not lost, in its finite-run
\* form: in merge mode, once the main file was saved with the keyword Blue,
\* whenever the loop is quiet the file carries the tag Blue, also when the
\* save fell between the scan's visit of the file and the start of fswatch.
C37_ScanChangesNotLost ==
    (cfg.merge /\ meta[p_main] = SavedMeta /\ Quiet)
        => s_Blue \in TagSet(xattr[p_main])

----------------------------------------------------------------------------
(* Claims about the batcher's state, checked under SpecLoop *)

\* select times out while the batch holds a path: nothing is read, written,
\* saved or deleted in the step, and the batch and the watermarks stay
PendingTimeout ==
    /\ pc = "loop" /\ pending_files # {}
    /\ pipe = <<>> /\ notifier = "running"
    /\ pc' \in {"loop", "batch"}
    /\ pipe' = pipe /\ decoded' = decoded /\ notifier' = notifier
    /\ exists' = exists /\ mtime' = mtime /\ meta' = meta /\ xattr' = xattr
    /\ script_MARKER_KEYWORD' = script_MARKER_KEYWORD
    /\ pending_files' = pending_files /\ last_processed' = last_processed
    /\ counts' = counts /\ exit' = exit

\* C38. The quiet-period test never defers a flush: at every select timeout
\* at which the batch is not empty, the clock reads at least SelectTimeout
\* (hence at least QuietPeriod) more than at the latest addition, and the
\* flush begins at that timeout.
C38_NeverDefers ==
    [][PendingTimeout =>
          /\ event_age # None
          /\ event_age' >= SelectTimeout
          /\ pc' = "batch" /\ todo' = pending_files
      ]_vars

\* what the batcher holds is consistent: the time of the latest addition is
\* unset exactly when the batch is empty, and every path of the batch has a
\* watermark
BatcherConsistent ==
    /\ event_age = None <=> pending_files = {}
    /\ pending_files \subseteq DOMAIN last_processed

\* C39. Batcher state invariant: in every state of the watch loop the time
\* of the latest addition is unset exactly when the batch is empty and every
\* path of the batch has a watermark; no step removes a watermark.
C39_BatcherInvariant ==
    /\ BatcherConsistent
    /\ [][ /\ BatcherConsistent'
           /\ DOMAIN last_processed \subseteq DOMAIN last_processed'
         ]_vars

\* C39 witness: after a flush has emptied the batch, a further line was
\* accepted: the batch holds the main file alone, just added, and the
\* sidecar flushed before still has its watermark.
C39_Witness ==
    /\ pc = "loop" /\ note.verdict = "accepted" /\ note.path = p_main
    /\ pending_files = {p_main} /\ event_age = 0
    /\ p_sidecar \in DOMAIN last_processed
    /\ hist.acc = {p_main}

====
